---- MODULE Spec2Model ----
(***************************************************************************)
(* Health-check service of src/index.js: three endpoints that delegate the *)
(* verdict to a remote language model (the oracle), validate its one-word  *)
(* answer and map it to an HTTP response.                                  *)
(*                                                                         *)
(* Texts are sequences of one-character strings, so that trim() and        *)
(* toUpperCase() are computed and not assumed.  Metric values and the      *)
(* timestamp are echoed by the code without being read; they are left out. *)
(***************************************************************************)
EXTENDS Integers, Sequences, FiniteSets, TLC

\* ------------------------------------------------------------------ bounds
NumRequests == 2

Requests == 1..NumRequests

\* ------------------------------------------------------------------- texts
Undefined == "undefined"

HEALTHY == "HEALTHY"
UNHEALTHY == "UNHEALTHY"
DEPENDENCY_FAILURE == "DEPENDENCY_FAILURE"
PARTIAL_DEPENDENCY == "PARTIAL_DEPENDENCY"
DEPENDENCIES_HEALTHY == "DEPENDENCIES_HEALTHY"

HealthLiterals == {HEALTHY, UNHEALTHY}

\* The spelling of each literal, character by character.
Spelling(lit) ==
    CASE lit = HEALTHY -> <<"H","E","A","L","T","H","Y">>
      [] lit = UNHEALTHY -> <<"U","N","H","E","A","L","T","H","Y">>
      [] lit = DEPENDENCY_FAILURE ->
            <<"D","E","P","E","N","D","E","N","C","Y","_","F","A","I","L","U","R","E">>
      [] lit = PARTIAL_DEPENDENCY ->
            <<"P","A","R","T","I","A","L","_","D","E","P","E","N","D","E","N","C","Y">>
      [] lit = DEPENDENCIES_HEALTHY ->
            <<"D","E","P","E","N","D","E","N","C","I","E","S","_","H","E","A","L","T","H","Y">>

\* validResponses of validateDependencyResponse.
validResponses == <<DEPENDENCY_FAILURE, PARTIAL_DEPENDENCY, DEPENDENCIES_HEALTHY>>

LowerLetters ==
    <<"a","b","c","d","e","f","g","h","i","j","k","l","m",
      "n","o","p","q","r","s","t","u","v","w","x","y","z">>
UpperLetters ==
    <<"A","B","C","D","E","F","G","H","I","J","K","L","M",
      "N","O","P","Q","R","S","T","U","V","W","X","Y","Z">>

WhiteSpace == {" ", "\t", "\n", "\r"}

\* String.prototype.toUpperCase, character by character.
ToUpperChar(c) ==
    IF \E i \in 1..Len(LowerLetters) : LowerLetters[i] = c
    THEN UpperLetters[CHOOSE i \in 1..Len(LowerLetters) : LowerLetters[i] = c]
    ELSE c

toUpperCase(s) == [i \in 1..Len(s) |-> ToUpperChar(s[i])]

RECURSIVE trimStart(_)
trimStart(s) ==
    IF s # <<>> /\ Head(s) \in WhiteSpace THEN trimStart(Tail(s)) ELSE s

RECURSIVE trimEnd(_)
trimEnd(s) ==
    IF s # <<>> /\ s[Len(s)] \in WhiteSpace
    THEN trimEnd(SubSeq(s, 1, Len(s) - 1))
    ELSE s

\* String.prototype.trim
trim(s) == trimEnd(trimStart(s))

\* The texts the oracle may answer with (either check may receive any of them).
OracleTexts ==
    { <<" ","h","e","a","l","t","h","y","\n">>,
      <<"U","N","H","E","A","L","T","H","Y">>,
      <<"D","E","P","E","N","D","E","N","C","Y","_","F","A","I","L","U","R","E">>,
      <<"p","a","r","t","i","a","l","_","d","e","p","e","n","d","e","n","c","y","\n">>,
      <<"\t","D","e","p","e","n","d","e","n","c","i","e","s","_","H","e","a","l","t","h","y">>,
      <<"H","E","A","L","T","H","Y",".">> }

\* ------------------------------------------------------------------ errors
NoError == [wrap |-> "", msg |-> "", raw |-> <<>>]

\* new Error(`Invalid health check response: ${response}`)
InvalidHealthError(response) ==
    [wrap |-> "", msg |-> "Invalid health check response: ", raw |-> response]

\* new Error(`Invalid dependency check response: ${response}`)
InvalidDependencyError(response) ==
    [wrap |-> "", msg |-> "Invalid dependency check response: ", raw |-> response]

\* The opaque error llm.invoke rejects with (network, auth, quota).
OracleError == [wrap |-> "", msg |-> "llm request failed", raw |-> <<>>]

\* dependencies.map(...) on a value that has no map method.
TypeError == [wrap |-> "", msg |-> "dependencies.map is not a function", raw |-> <<>>]

\* ------------------------------------------------------------- validators
\* A validator's outcome: the value returned, or the error thrown.
Returned(v) == [ok |-> TRUE, value |-> v, error |-> NoError]
Thrown(e) == [ok |-> FALSE, value |-> Undefined, error |-> e]

LiteralOf(trimmed, lits) ==
    IF \E l \in lits : Spelling(l) = trimmed
    THEN CHOOSE l \in lits : Spelling(l) = trimmed
    ELSE Undefined

\* Faulty variant: the validator forgets to trim.
validateHealthResponseNoTrim(response) ==
    LET trimmed == toUpperCase(response)
    IN  IF trimmed = Spelling(HEALTHY) \/ trimmed = Spelling(UNHEALTHY)
        THEN Returned(LiteralOf(trimmed, HealthLiterals))
        ELSE Thrown(InvalidHealthError(response))

validateHealthResponse(response) ==
    LET trimmed == toUpperCase(trim(response))
    IN  IF trimmed = Spelling(HEALTHY) \/ trimmed = Spelling(UNHEALTHY)
        THEN Returned(LiteralOf(trimmed, HealthLiterals))
        ELSE Thrown(InvalidHealthError(response))

\* Faulty variant: the dependency validator also lets the health literals through.
validateDependencyResponseAnyLiteral(response) ==
    LET trimmed == toUpperCase(trim(response))
        lits == {validResponses[i] : i \in 1..Len(validResponses)} \cup HealthLiterals
    IN  IF \E l \in lits : Spelling(l) = trimmed
        THEN Returned(LiteralOf(trimmed, lits))
        ELSE Thrown(InvalidDependencyError(response))

validateDependencyResponse(response) ==
    LET trimmed == toUpperCase(trim(response))
    IN  IF \E i \in 1..Len(validResponses) : Spelling(validResponses[i]) = trimmed
        THEN Returned(LiteralOf(trimmed, {validResponses[i] : i \in 1..Len(validResponses)}))
        ELSE Thrown(InvalidDependencyError(response))

\* ------------------------------------------------------------- promises
Checks == <<"system", "dependency">>
CheckNames == {Checks[i] : i \in 1..Len(Checks)}

\* chain.invoke(...) before it is called, and right after the call.
NotInvoked == [state |-> "none", text |-> <<>>, value |-> Undefined, error |-> NoError]
Pending == [state |-> "pending", text |-> <<>>, value |-> Undefined, error |-> NoError]

\* healthAnalysisChain / dependencyCheckChain once the model has answered
\* `text`: the parser hands the text to the chain's validator.
ChainOutcome(c, text) ==
    IF c = "system" THEN validateHealthResponse(text) ELSE validateDependencyResponse(text)

\* Faulty variant: the join waits for both promises and never rejects
\* (Promise.allSettled read as if it were Promise.all).
PromiseAllSettled(s1, s2) ==
    IF s1 \in {"fulfilled", "rejected"} /\ s2 \in {"fulfilled", "rejected"}
    THEN "fulfilled"
    ELSE "pending"

\* Faulty variant: the join is fulfilled by the first fulfilled promise.
PromiseFirstFulfilled(s1, s2) ==
    IF s1 = "fulfilled" \/ s2 = "fulfilled" THEN "fulfilled"
    ELSE IF s1 = "rejected" \/ s2 = "rejected" THEN "rejected"
    ELSE "pending"

\* Promise.all over the two chain promises: rejected as soon as one of them
\* is rejected, fulfilled once both are fulfilled, pending otherwise.
PromiseAll(s1, s2) ==
    IF s1 = "rejected" \/ s2 = "rejected" THEN "rejected"
    ELSE IF s1 = "fulfilled" /\ s2 = "fulfilled" THEN "fulfilled"
    ELSE "pending"

\* ------------------------------------------------------------ merge rules
\* `let overallHealth = "HEALTHY"`
InitialOverall == HEALTHY

AfterSystemCheck(overall, systemHealth) ==
    IF systemHealth = UNHEALTHY THEN UNHEALTHY ELSE overall

SystemReasoning(systemHealth) ==
    IF systemHealth = UNHEALTHY
    THEN "System metrics indicate unhealthy state"
    ELSE "System metrics are within healthy ranges"

\* Faulty variant: a partial dependency failure escalates too.
AfterDependencyCheckEscalatesPartial(overall, dependencyHealth) ==
    IF dependencyHealth \in {DEPENDENCY_FAILURE, PARTIAL_DEPENDENCY} THEN UNHEALTHY ELSE overall

\* Faulty variant: the dependency branch assigns the status on both arms.
AfterDependencyCheckReverts(overall, dependencyHealth) ==
    IF dependencyHealth = DEPENDENCY_FAILURE THEN UNHEALTHY ELSE HEALTHY

AfterDependencyCheck(overall, dependencyHealth) ==
    IF dependencyHealth = DEPENDENCY_FAILURE THEN UNHEALTHY ELSE overall

DependencyReasoning(dependencyHealth) ==
    IF dependencyHealth = DEPENDENCY_FAILURE THEN "Critical dependencies are failing"
    ELSE IF dependencyHealth = PARTIAL_DEPENDENCY
         THEN "Some non-critical dependencies are down"
         ELSE "All dependencies are healthy"

\* -------------------------------------------------------------- formatter
NoResult ==
    [status |-> Undefined, systemHealth |-> Undefined,
     dependencyHealth |-> Undefined, reasoning |-> <<>>]

NoFormatted ==
    [httpStatus |-> 0, message |-> "", details |-> NoResult, recommendations |-> <<>>]

ResourceRecommendation == "Check system resources and optimize performance"
DependencyRecommendation == "Investigate and restore critical service dependencies"

healthyResponseChain(input) ==
    [httpStatus |-> 200, message |-> "System is healthy",
     details |-> input, recommendations |-> <<>>]

\* Faulty variant: the two recommendations are pushed in the other order.
unhealthyResponseChainSwapped(input) ==
    LET r1 == IF input.systemHealth = UNHEALTHY THEN <<ResourceRecommendation>> ELSE <<>>
        r2 == IF input.dependencyHealth = DEPENDENCY_FAILURE
              THEN <<DependencyRecommendation>> ELSE <<>>
    IN  [httpStatus |-> 500, message |-> "System is unhealthy",
         details |-> input, recommendations |-> r2 \o r1]

unhealthyResponseChain(input) ==
    LET r1 == IF input.systemHealth = UNHEALTHY THEN <<ResourceRecommendation>> ELSE <<>>
        r2 == IF input.dependencyHealth = DEPENDENCY_FAILURE
              THEN <<DependencyRecommendation>> ELSE <<>>
    IN  [httpStatus |-> 500, message |-> "System is unhealthy",
         details |-> input, recommendations |-> r1 \o r2]

conditionalResponseChain(input) ==
    IF input.status = HEALTHY THEN healthyResponseChain(input)
    ELSE unhealthyResponseChain(input)

\* -------------------------------------------------------------- responses
NoResponse ==
    [httpStatus |-> 0, status |-> Undefined, message |-> "", error |-> NoError,
     details |-> NoResult, recommendations |-> <<>>, dependencyHealth |-> Undefined]

\* Faulty variant: the catch blocks answer with a fallback verdict.
ErrorResponseFallback(message, error) ==
    [NoResponse EXCEPT !.httpStatus = 500, !.status = "unhealthy",
                       !.message = message, !.error = error]

\* The catch blocks of the three endpoints: res.status(500).json({status: "error", ...})
ErrorResponse(message, error) ==
    [NoResponse EXCEPT !.httpStatus = 500, !.status = "error",
                       !.message = message, !.error = error]

\* res.status(400).json(...) of the dependency endpoint.
BadRequestResponse ==
    [NoResponse EXCEPT !.httpStatus = 400, !.status = "error",
                       !.message = "Dependencies array is required in request body"]

BasicResponse(healthStatus) ==
    IF healthStatus = HEALTHY
    THEN [NoResponse EXCEPT !.httpStatus = 200, !.status = "healthy",
                            !.message = "All systems operational"]
    ELSE [NoResponse EXCEPT !.httpStatus = 500, !.status = "unhealthy",
                            !.message = "System health check failed"]

\* Faulty variant: only a critical failure makes the answer unhealthy, as in
\* the merge step of the comprehensive chain.
DependenciesResponsePartialHealthy(dependencyHealth) ==
    LET isHealthy == dependencyHealth # DEPENDENCY_FAILURE
    IN  [NoResponse EXCEPT
           !.httpStatus = IF isHealthy THEN 200 ELSE 500,
           !.status = IF isHealthy THEN "healthy" ELSE "unhealthy",
           !.dependencyHealth = dependencyHealth,
           !.message = IF isHealthy THEN "All dependencies are healthy"
                       ELSE "Some dependencies are failing"]

DependenciesResponse(dependencyHealth) ==
    LET isHealthy == dependencyHealth = DEPENDENCIES_HEALTHY
    IN  [NoResponse EXCEPT
           !.httpStatus = IF isHealthy THEN 200 ELSE 500,
           !.status = IF isHealthy THEN "healthy" ELSE "unhealthy",
           !.dependencyHealth = dependencyHealth,
           !.message = IF isHealthy THEN "All dependencies are healthy"
                       ELSE "Some dependencies are failing"]

\* res.status(result.httpStatus).json(result)
ComprehensiveResponse(result) ==
    [NoResponse EXCEPT !.httpStatus = result.httpStatus, !.message = result.message,
                       !.details = result.details,
                       !.recommendations = result.recommendations]

\* --------------------------------------------------------- request bodies
\* What req.body.dependencies may be.
BodyDependencies == {"undefined", "null", "string", "object", "array"}

\* !dependencies
Falsy(b) == b \in {"undefined", "null"}

\* Array.isArray(dependencies)
IsArray(b) == b = "array"

\* Faulty variant: the guard forgets Array.isArray.
RejectsOnlyFalsy(b) == Falsy(b)

\* `!dependencies || !Array.isArray(dependencies)` of the dependency endpoint.
RejectsDependencies(b) == Falsy(b) \/ ~IsArray(b)

\* The destructuring default of the comprehensive endpoint applies to
\* undefined only.
WithDefault(b) == IF b = "undefined" THEN "array" ELSE b

\* dependencies.map(...).join("\n") throws unless the value is an array.
MapThrows(b) == ~IsArray(b)

\* ------------------------------------------------------------------ state
VARIABLES
    endpoint,        \* the route each request came in on
    dependencies,    \* the local `dependencies` of each request's handler
    pc,              \* where each request's handler is suspended
    call,            \* the two chain promises of each request
    llmInvocations,  \* how many times each check called the model
    settled,         \* the checks of each request in their order of settlement
    results,         \* what step 2 of comprehensiveHealthChain returned
    overallHealth,   \* the local of step 3
    reasoning,       \* the local of step 3
    comprehensive,   \* what comprehensiveHealthChain returned
    formatted,       \* what conditionalResponseChain returned
    response,        \* what the endpoint sent
    responsesSent    \* how many times the endpoint sent a response

vars == <<endpoint, dependencies, pc, call, llmInvocations, settled, results, overallHealth,
          reasoning, comprehensive, formatted, response, responsesSent>>

NoResults == [systemHealth |-> Undefined, dependencyHealth |-> Undefined]

Init ==
    /\ endpoint = [r \in Requests |-> "none"]
    /\ dependencies = [r \in Requests |-> "undefined"]
    /\ pc = [r \in Requests |-> "idle"]
    /\ call = [r \in Requests |-> [c \in CheckNames |-> NotInvoked]]
    /\ llmInvocations = [r \in Requests |-> [c \in CheckNames |-> 0]]
    /\ settled = [r \in Requests |-> <<>>]
    /\ results = [r \in Requests |-> NoResults]
    /\ overallHealth = [r \in Requests |-> Undefined]
    /\ reasoning = [r \in Requests |-> <<>>]
    /\ comprehensive = [r \in Requests |-> NoResult]
    /\ formatted = [r \in Requests |-> NoFormatted]
    /\ response = [r \in Requests |-> NoResponse]
    /\ responsesSent = [r \in Requests |-> 0]

\* res.status(...).json(...)
Send(r, resp) ==
    /\ response' = [response EXCEPT ![r] = resp]
    /\ responsesSent' = [responsesSent EXCEPT ![r] = @ + 1]
    /\ pc' = [pc EXCEPT ![r] = "done"]

\* chain.invoke(...): the prompt is rendered and the model is called once.
Invoke(r, cs) ==
    /\ call' = [call EXCEPT ![r] = [c \in CheckNames |-> IF c \in cs THEN Pending ELSE @[c]]]
    /\ llmInvocations' =
         [llmInvocations EXCEPT ![r] = [c \in CheckNames |-> IF c \in cs THEN @[c] + 1 ELSE @[c]]]

\* The first rejection among the settled checks: what Promise.all (or a
\* single awaited chain) rejects with.
RECURSIVE FirstRejection(_, _)
FirstRejection(r, order) ==
    IF order = <<>> THEN NoError
    ELSE IF call[r][Head(order)].state = "rejected" THEN call[r][Head(order)].error
    ELSE FirstRejection(r, Tail(order))

\* new Error(`Health check failed: ${error.message}`)
HealthCheckFailed(error) == [error EXCEPT !.wrap = "Health check failed: "]

\* Faulty variant: `overallHealth` is declared at module level, so an
\* escalation made for one request is seen by the others.
SharedOverall(r) ==
    IF \E q \in Requests : overallHealth[q] = UNHEALTHY THEN UNHEALTHY ELSE overallHealth[r]

\* The local `overallHealth` of the step-3 invocation that serves r.
LocalOverall(r) == overallHealth[r]

\* ------------------------------------------------------------- endpoints
\* GET /api/health/basic, up to `await healthAnalysisChain.invoke(...)`.
BasicRequest(r) ==
    /\ pc[r] = "idle"
    /\ endpoint' = [endpoint EXCEPT ![r] = "basic"]
    /\ Invoke(r, {"system"})
    /\ pc' = [pc EXCEPT ![r] = "awaitHealth"]
    /\ UNCHANGED <<dependencies, settled, results, overallHealth, reasoning, comprehensive,
                   formatted, response, responsesSent>>

\* GET /api/health/basic, after the await.
BasicRespond(r) ==
    /\ pc[r] = "awaitHealth"
    /\ \/ /\ call[r]["system"].state = "fulfilled"
          /\ Send(r, BasicResponse(call[r]["system"].value))
       \/ /\ call[r]["system"].state = "rejected"
          /\ Send(r, ErrorResponse("Health check system failure", call[r]["system"].error))
    /\ UNCHANGED <<endpoint, dependencies, call, llmInvocations, settled, results, overallHealth,
                   reasoning, comprehensive, formatted>>

\* POST /api/health/comprehensive, up to `await Promise.all(...)`: the
\* defaults, step 1 (which maps over the dependencies) and the launch of
\* both chains.
ComprehensiveRequest(r, b) ==
    /\ pc[r] = "idle"
    /\ endpoint' = [endpoint EXCEPT ![r] = "comprehensive"]
    /\ dependencies' = [dependencies EXCEPT ![r] = WithDefault(b)]
    /\ \/ /\ MapThrows(WithDefault(b))
          /\ Send(r, ErrorResponse("Comprehensive health check system failure", TypeError))
          /\ UNCHANGED <<call, llmInvocations>>
       \/ /\ ~MapThrows(WithDefault(b))
          /\ Invoke(r, {"system", "dependency"})
          /\ pc' = [pc EXCEPT ![r] = "step2"]
          /\ UNCHANGED <<response, responsesSent>>
    /\ UNCHANGED <<settled, results, overallHealth, reasoning, comprehensive, formatted>>

\* Step 2 after Promise.all is fulfilled, and the two declarations that
\* open step 3.
Step2Fulfilled(r) ==
    /\ pc[r] = "step2"
    /\ PromiseAll(call[r]["system"].state, call[r]["dependency"].state) = "fulfilled"
    /\ results' = [results EXCEPT ![r] =
                     [systemHealth |-> call[r]["system"].value,
                      dependencyHealth |-> call[r]["dependency"].value]]
    /\ overallHealth' = [overallHealth EXCEPT ![r] = InitialOverall]
    /\ reasoning' = [reasoning EXCEPT ![r] = <<>>]
    /\ pc' = [pc EXCEPT ![r] = "checkSystem"]
    /\ UNCHANGED <<endpoint, dependencies, call, llmInvocations, settled, comprehensive,
                   formatted, response, responsesSent>>

\* Step 2 after Promise.all is rejected: the catch rethrows, the sequence
\* rejects and the endpoint's catch answers.
Step2Rejected(r) ==
    /\ pc[r] = "step2"
    /\ PromiseAll(call[r]["system"].state, call[r]["dependency"].state) = "rejected"
    /\ Send(r, ErrorResponse("Comprehensive health check system failure",
                             HealthCheckFailed(FirstRejection(r, settled[r]))))
    /\ UNCHANGED <<endpoint, dependencies, call, llmInvocations, settled, results, overallHealth,
                   reasoning, comprehensive, formatted>>

\* Step 3, `if (systemHealth === "UNHEALTHY") ... else ...`
CheckSystemHealth(r) ==
    /\ pc[r] = "checkSystem"
    /\ overallHealth' = [overallHealth EXCEPT ![r] =
                           AfterSystemCheck(LocalOverall(r), results[r].systemHealth)]
    /\ reasoning' = [reasoning EXCEPT ![r] =
                       Append(@, SystemReasoning(results[r].systemHealth))]
    /\ pc' = [pc EXCEPT ![r] = "checkDependency"]
    /\ UNCHANGED <<endpoint, dependencies, call, llmInvocations, settled, results, comprehensive,
                   formatted, response, responsesSent>>

\* Step 3, `if (dependencyHealth === "DEPENDENCY_FAILURE") ...` and the return.
CheckDependencyHealth(r) ==
    /\ pc[r] = "checkDependency"
    /\ LET overall == AfterDependencyCheck(LocalOverall(r), results[r].dependencyHealth)
           reasons == Append(reasoning[r], DependencyReasoning(results[r].dependencyHealth))
       IN  /\ overallHealth' = [overallHealth EXCEPT ![r] = overall]
           /\ reasoning' = [reasoning EXCEPT ![r] = reasons]
           /\ comprehensive' = [comprehensive EXCEPT ![r] =
                                  [status |-> overall,
                                   systemHealth |-> results[r].systemHealth,
                                   dependencyHealth |-> results[r].dependencyHealth,
                                   reasoning |-> reasons]]
    /\ pc' = [pc EXCEPT ![r] = "format"]
    /\ UNCHANGED <<endpoint, dependencies, call, llmInvocations, settled, results, formatted,
                   response, responsesSent>>

\* masterHealthCheckChain's second stage.
Format(r) ==
    /\ pc[r] = "format"
    /\ formatted' = [formatted EXCEPT ![r] = conditionalResponseChain(comprehensive[r])]
    /\ pc' = [pc EXCEPT ![r] = "respond"]
    /\ UNCHANGED <<endpoint, dependencies, call, llmInvocations, settled, results, overallHealth,
                   reasoning, comprehensive, response, responsesSent>>

\* POST /api/health/comprehensive, after `await masterHealthCheckChain.invoke(...)`.
ComprehensiveRespond(r) ==
    /\ pc[r] = "respond"
    /\ Send(r, ComprehensiveResponse(formatted[r]))
    /\ UNCHANGED <<endpoint, dependencies, call, llmInvocations, settled, results, overallHealth,
                   reasoning, comprehensive, formatted>>

\* POST /api/health/dependencies, up to `await dependencyCheckChain.invoke(...)`.
DependenciesRequest(r, b) ==
    /\ pc[r] = "idle"
    /\ endpoint' = [endpoint EXCEPT ![r] = "dependencies"]
    /\ dependencies' = [dependencies EXCEPT ![r] = b]
    /\ \/ /\ RejectsDependencies(b)
          /\ Send(r, BadRequestResponse)
          /\ UNCHANGED <<call, llmInvocations>>
       \/ /\ ~RejectsDependencies(b)
          /\ MapThrows(b)
          /\ Send(r, ErrorResponse("Dependency check system failure", TypeError))
          /\ UNCHANGED <<call, llmInvocations>>
       \/ /\ ~RejectsDependencies(b)
          /\ ~MapThrows(b)
          /\ Invoke(r, {"dependency"})
          /\ pc' = [pc EXCEPT ![r] = "awaitDependencies"]
          /\ UNCHANGED <<response, responsesSent>>
    /\ UNCHANGED <<settled, results, overallHealth, reasoning, comprehensive, formatted>>

\* POST /api/health/dependencies, after the await.
DependenciesRespond(r) ==
    /\ pc[r] = "awaitDependencies"
    /\ \/ /\ call[r]["dependency"].state = "fulfilled"
          /\ Send(r, DependenciesResponse(call[r]["dependency"].value))
       \/ /\ call[r]["dependency"].state = "rejected"
          /\ Send(r, ErrorResponse("Dependency check system failure",
                                   call[r]["dependency"].error))
    /\ UNCHANGED <<endpoint, dependencies, call, llmInvocations, settled, results, overallHealth,
                   reasoning, comprehensive, formatted>>

\* ----------------------------------------------------------------- oracle
\* The model answers `text`; the parser and the validator of the chain run.
LlmAnswers(r, c, text) ==
    /\ call[r][c].state = "pending"
    /\ LET out == ChainOutcome(c, text)
       IN  call' = [call EXCEPT ![r][c] =
                      [state |-> IF out.ok THEN "fulfilled" ELSE "rejected",
                       text |-> text, value |-> out.value, error |-> out.error]]
    /\ settled' = [settled EXCEPT ![r] = Append(@, c)]
    /\ UNCHANGED <<endpoint, dependencies, pc, llmInvocations, results, overallHealth, reasoning,
                   comprehensive, formatted, response, responsesSent>>

\* The call to the model fails (network, auth, quota).
LlmFails(r, c) ==
    /\ call[r][c].state = "pending"
    /\ call' = [call EXCEPT ![r][c] = [@ EXCEPT !.state = "rejected", !.error = OracleError]]
    /\ settled' = [settled EXCEPT ![r] = Append(@, c)]
    /\ UNCHANGED <<endpoint, dependencies, pc, llmInvocations, results, overallHealth, reasoning,
                   comprehensive, formatted, response, responsesSent>>

\* The call to the model never completes: no timeout is configured, so the
\* chain promise stays unsettled for ever.
LlmStalls(r, c) ==
    /\ call[r][c].state = "pending"
    /\ call' = [call EXCEPT ![r][c] = [@ EXCEPT !.state = "stalled"]]
    /\ UNCHANGED <<endpoint, dependencies, pc, llmInvocations, settled, results, overallHealth,
                   reasoning, comprehensive, formatted, response, responsesSent>>

Next ==
    \E r \in Requests :
        \/ BasicRequest(r)
        \/ BasicRespond(r)
        \/ \E b \in BodyDependencies : ComprehensiveRequest(r, b)
        \/ Step2Fulfilled(r)
        \/ Step2Rejected(r)
        \/ CheckSystemHealth(r)
        \/ CheckDependencyHealth(r)
        \/ Format(r)
        \/ ComprehensiveRespond(r)
        \/ \E b \in BodyDependencies : DependenciesRequest(r, b)
        \/ DependenciesRespond(r)
        \/ \E c \in CheckNames :
              \/ \E text \in OracleTexts : LlmAnswers(r, c, text)
              \/ LlmFails(r, c)
              \/ LlmStalls(r, c)

Spec == Init /\ [][Next]_vars

\* ================================================================ claims
Comprehensive(r) == endpoint[r] = "comprehensive"
Other(c) == IF c = "system" THEN "dependency" ELSE "system"

\* The model answered this check (as opposed to the call failing).
Answered(r, c) ==
    /\ call[r][c].state \in {"fulfilled", "rejected"}
    /\ call[r][c].error # OracleError

SameLetter(a, b) ==
    a = b \/ \E n \in 1..Len(LowerLetters) : LowerLetters[n] = a /\ UpperLetters[n] = b

\* `text` is the literal in any letter case, between two runs of whitespace.
Matches(text, lit) ==
    LET sp == Spelling(lit)
    IN  \E i \in 0..Len(text) :
           /\ i + Len(sp) <= Len(text)
           /\ \A k \in 1..i : text[k] \in WhiteSpace
           /\ \A k \in 1..Len(sp) : SameLetter(text[i + k], sp[k])
           /\ \A k \in (i + Len(sp) + 1)..Len(text) : text[k] \in WhiteSpace

DependencyLiterals == {DEPENDENCY_FAILURE, PARTIAL_DEPENDENCY, DEPENDENCIES_HEALTHY}

\* C1: in every ComprehensiveResult, status is UNHEALTHY if and only if
\* systemHealth is UNHEALTHY or dependencyHealth is DEPENDENCY_FAILURE, and
\* it is HEALTHY otherwise (a partial dependency failure does not escalate).
StatusIffEscalated ==
    \A r \in Requests :
        comprehensive[r] # NoResult =>
            /\ comprehensive[r].status \in {HEALTHY, UNHEALTHY}
            /\ comprehensive[r].status = UNHEALTHY <=>
                  \/ comprehensive[r].systemHealth = UNHEALTHY
                  \/ comprehensive[r].dependencyHealth = DEPENDENCY_FAILURE

PartialStaysHealthy ==
    \E r \in Requests :
        /\ comprehensive[r].systemHealth = HEALTHY
        /\ comprehensive[r].dependencyHealth = PARTIAL_DEPENDENCY
        /\ comprehensive[r].status = HEALTHY
        /\ pc[r] = "done"

\* C2: the two checks of a comprehensive request are launched together, and
\* once either of them has failed no step-2 result, no ComprehensiveResult
\* and no formatted payload exists for the request, whatever the other check
\* did and in whatever order; the only answer is the error response.
FailFastJoin ==
    \A r \in Requests :
        Comprehensive(r) =>
            /\ call[r]["system"].state = "none" <=> call[r]["dependency"].state = "none"
            /\ (\E c \in CheckNames : call[r][c].state = "rejected") =>
                  /\ results[r] = NoResults
                  /\ comprehensive[r] = NoResult
                  /\ formatted[r] = NoFormatted
                  /\ response[r] # NoResponse =>
                        /\ response[r].status = "error"
                        /\ response[r].httpStatus = 500
                        /\ response[r].details = NoResult

OneFailsAfterOtherSucceeded ==
    \E r \in Requests :
        /\ Comprehensive(r)
        /\ settled[r] = <<"dependency", "system">>
        /\ call[r]["dependency"].state = "fulfilled"
        /\ call[r]["system"].state = "rejected"
        /\ pc[r] = "done"

\* C3 as stated: a comprehensive request one of whose calls never completes
\* is never answered, whatever the other call does.
StalledCallStallsRequest ==
    \A r \in Requests :
        (Comprehensive(r) /\ \E c \in CheckNames : call[r][c].state = "stalled")
            => response[r] = NoResponse

\* C3 as amended: a comprehensive request one of whose calls never completes
\* is never answered unless the other call fails; if the other call fails
\* the only answer is the 500 error response.
StalledUnlessOtherFails ==
    \A r \in Requests : \A c \in CheckNames :
        (Comprehensive(r) /\ call[r][c].state = "stalled") =>
            /\ call[r][Other(c)].state # "rejected" =>
                  response[r] = NoResponse /\ pc[r] = "step2"
            /\ response[r] # NoResponse =>
                  response[r].httpStatus = 500 /\ response[r].status = "error"

StalledWhileOtherSucceeded ==
    \E r \in Requests : \E c \in CheckNames :
        /\ Comprehensive(r)
        /\ call[r][c].state = "stalled"
        /\ call[r][Other(c)].state = "fulfilled"
        /\ response[r] = NoResponse

\* C4: every verdict a request holds is one of the literals of its check,
\* and a request whose oracle answered any other text has a failed check and
\* no ComprehensiveResult.
VerdictsAreEnumerated ==
    \A r \in Requests :
        /\ \A c \in CheckNames :
              LET lits == IF c = "system" THEN HealthLiterals ELSE DependencyLiterals
              IN  /\ call[r][c].state = "fulfilled" => call[r][c].value \in lits
                  /\ call[r][c].state # "fulfilled" => call[r][c].value = Undefined
                  /\ (Answered(r, c) /\ ~\E l \in lits : Matches(call[r][c].text, l)) =>
                        /\ call[r][c].state = "rejected"
                        /\ comprehensive[r] = NoResult
        /\ results[r] # NoResults =>
              /\ results[r].systemHealth \in HealthLiterals
              /\ results[r].dependencyHealth \in DependencyLiterals
        /\ comprehensive[r] # NoResult =>
              /\ comprehensive[r].systemHealth \in HealthLiterals
              /\ comprehensive[r].dependencyHealth \in DependencyLiterals
        /\ response[r].dependencyHealth \in DependencyLiterals \cup {Undefined}

ForeignLiteralRejected ==
    \E r \in Requests :
        /\ Comprehensive(r)
        /\ Answered(r, "dependency")
        /\ Matches(call[r]["dependency"].text, HEALTHY)
        /\ call[r]["dependency"].state = "rejected"
        /\ call[r]["system"].state = "fulfilled"
        /\ pc[r] = "done"

\* C5: the health analysis check returns HEALTHY (UNHEALTHY) exactly when
\* the oracle's text is that word in any letter case between surrounding
\* whitespace; for any other text it returns no verdict and fails with the
\* invalid-response error that carries the raw text.
HealthValidatorExact ==
    \A r \in Requests :
        Answered(r, "system") =>
            LET c == call[r]["system"]
            IN  /\ c.value = HEALTHY <=> Matches(c.text, HEALTHY)
                /\ c.value = UNHEALTHY <=> Matches(c.text, UNHEALTHY)
                /\ c.state = "fulfilled" <=> c.value \in HealthLiterals
                /\ (~Matches(c.text, HEALTHY) /\ ~Matches(c.text, UNHEALTHY)) =>
                      /\ c.state = "rejected"
                      /\ c.value = Undefined
                      /\ c.error.msg = "Invalid health check response: "
                      /\ c.error.raw = c.text

PaddedLowercaseAccepted ==
    \E r \in Requests :
        /\ call[r]["system"].state = "fulfilled"
        /\ call[r]["system"].value = HEALTHY
        /\ call[r]["system"].text # Spelling(HEALTHY)
        /\ \E q \in Requests :
              /\ call[q]["system"].state = "rejected"
              /\ call[q]["system"].error.raw = <<"H","E","A","L","T","H","Y",".">>

\* C6: the formatter maps a HEALTHY result to 200, "System is healthy" and
\* no recommendation, and an UNHEALTHY result to 500, "System is unhealthy"
\* and the resource recommendation iff systemHealth is UNHEALTHY followed by
\* the dependency recommendation iff dependencyHealth is DEPENDENCY_FAILURE;
\* a partial dependency failure adds none.
FormatterMapping ==
    \A r \in Requests :
        formatted[r] # NoFormatted =>
            LET f == formatted[r]
                d == comprehensive[r]
                resource == IF d.systemHealth = UNHEALTHY
                            THEN <<"Check system resources and optimize performance">>
                            ELSE <<>>
                dependency == IF d.dependencyHealth = DEPENDENCY_FAILURE
                              THEN <<"Investigate and restore critical service dependencies">>
                              ELSE <<>>
            IN  /\ f.details = d
                /\ d.status = HEALTHY =>
                      /\ f.httpStatus = 200
                      /\ f.message = "System is healthy"
                      /\ f.recommendations = <<>>
                /\ d.status = UNHEALTHY =>
                      /\ f.httpStatus = 500
                      /\ f.message = "System is unhealthy"
                      /\ f.recommendations = resource \o dependency
                /\ d.status \in {HEALTHY, UNHEALTHY}

BothRecommendations ==
    \E r \in Requests :
        /\ formatted[r].httpStatus = 500
        /\ Len(formatted[r].recommendations) = 2
        /\ response[r].recommendations = formatted[r].recommendations
        /\ \E q \in Requests :
              /\ formatted[q].httpStatus = 200
              /\ formatted[q].details.dependencyHealth = PARTIAL_DEPENDENCY

\* C7: a dependency-only request whose `dependencies` is absent or is not an
\* array is answered 400 with status "error", and no oracle call is made
\* for it.
BoundaryRejection ==
    \A r \in Requests :
        (endpoint[r] = "dependencies" /\ dependencies[r] # "array") =>
            /\ response[r].httpStatus = 400
            /\ response[r].status = "error"
            /\ responsesSent[r] = 1
            /\ pc[r] = "done"
            /\ \A c \in CheckNames : llmInvocations[r][c] = 0 /\ call[r][c] = NotInvoked

NonArrayRejected ==
    \E r \in Requests :
        /\ endpoint[r] = "dependencies"
        /\ dependencies[r] = "string"
        /\ response[r].httpStatus = 400
        /\ \E q \in Requests :
              /\ endpoint[q] = "dependencies"
              /\ dependencies[q] = "undefined"
              /\ response[q].httpStatus = 400

\* Check c of request r failed: the call failed or the answer was invalid.
Failed(r, c) == call[r][c].state = "rejected"

\* C8: no check calls the oracle more than once for a request and no
\* request is answered more than once; a request one of whose checks has
\* failed is answered, and its one answer is the 500 response with status
\* "error" and no verdict.
NoRetryNoFallback ==
    \A r \in Requests :
        /\ \A c \in CheckNames : llmInvocations[r][c] <= 1
        /\ responsesSent[r] <= 1
        /\ (\E c \in CheckNames : Failed(r, c)) =>
              /\ pc[r] \in {"awaitHealth", "awaitDependencies", "step2", "done"}
              /\ pc[r] = "done" =>
                    /\ responsesSent[r] = 1
                    /\ response[r].httpStatus = 500
                    /\ response[r].status = "error"
                    /\ response[r].details = NoResult
                    /\ response[r].dependencyHealth = Undefined
              /\ pc[r] # "done" =>
                    /\ response[r] = NoResponse
                    /\ ENABLED (BasicRespond(r) \/ Step2Rejected(r) \/ DependenciesRespond(r))

FailedChecksAnswered ==
    \E r \in Requests :
        /\ endpoint[r] = "basic"
        /\ Failed(r, "system")
        /\ call[r]["system"].error = OracleError
        /\ responsesSent[r] = 1
        /\ \E q \in Requests :
              /\ Comprehensive(q)
              /\ Failed(q, "dependency")
              /\ call[q]["dependency"].error.msg = "Invalid dependency check response: "
              /\ responsesSent[q] = 1

\* What a request's own input and own oracle outcomes say its answer is.
OwnResponse(r) ==
    LET sys == call[r]["system"]
        dep == call[r]["dependency"]
    IN  CASE endpoint[r] = "basic" ->
               IF sys.state = "fulfilled" THEN BasicResponse(sys.value)
               ELSE ErrorResponse("Health check system failure", sys.error)
          [] endpoint[r] = "dependencies" ->
               IF dependencies[r] # "array" THEN BadRequestResponse
               ELSE IF dep.state = "fulfilled" THEN DependenciesResponse(dep.value)
               ELSE ErrorResponse("Dependency check system failure", dep.error)
          [] endpoint[r] = "comprehensive" ->
               IF dependencies[r] # "array"
               THEN ErrorResponse("Comprehensive health check system failure", TypeError)
               ELSE IF sys.state = "rejected" \/ dep.state = "rejected"
               THEN ErrorResponse("Comprehensive health check system failure",
                                  HealthCheckFailed(FirstRejection(r, settled[r])))
               ELSE ComprehensiveResponse(conditionalResponseChain(
                      [status |-> IF sys.value = UNHEALTHY \/ dep.value = DEPENDENCY_FAILURE
                                  THEN UNHEALTHY ELSE HEALTHY,
                       systemHealth |-> sys.value,
                       dependencyHealth |-> dep.value,
                       reasoning |-> <<SystemReasoning(sys.value),
                                       DependencyReasoning(dep.value)>>]))
          [] OTHER -> NoResponse

\* C9: whatever the interleaving, the answer of a request is the one its own
\* input and its own oracle outcomes determine, so two requests with the
\* same input and outcomes get the same answer whatever else is in flight.
RequestsIndependent ==
    /\ \A r \in Requests :
          /\ pc[r] = "done" => response[r] = OwnResponse(r)
          /\ pc[r] # "done" => response[r] = NoResponse
    /\ \A r, q \in Requests :
          (/\ pc[r] = "done" /\ pc[q] = "done"
           /\ endpoint[r] = endpoint[q] /\ dependencies[r] = dependencies[q]
           /\ call[r] = call[q] /\ settled[r] = settled[q])
             => response[r] = response[q]

HealthyBesideUnhealthy ==
    \E r, q \in Requests :
        /\ Comprehensive(r) /\ Comprehensive(q)
        /\ response[r].httpStatus = 200
        /\ response[r].details.status = HEALTHY
        /\ comprehensive[q].status = UNHEALTHY
        /\ response[q].httpStatus = 500

\* C10: in the merge step the overall status starts HEALTHY and only ever
\* moves from HEALTHY to UNHEALTHY, and the reasoning of every
\* ComprehensiveResult is the system message followed by the dependency
\* message, whichever check completed first.
MergeIsMonotone ==
    /\ [](\A r \in Requests :
            /\ pc[r] = "checkSystem" => overallHealth[r] = HEALTHY /\ reasoning[r] = <<>>
            /\ comprehensive[r] # NoResult =>
                  /\ comprehensive[r].status = overallHealth[r]
                  /\ Len(comprehensive[r].reasoning) = 2
                  /\ comprehensive[r].reasoning[1] =
                        (IF comprehensive[r].systemHealth = UNHEALTHY
                         THEN "System metrics indicate unhealthy state"
                         ELSE "System metrics are within healthy ranges")
                  /\ comprehensive[r].reasoning[2] =
                        (CASE comprehensive[r].dependencyHealth = DEPENDENCY_FAILURE ->
                                "Critical dependencies are failing"
                           [] comprehensive[r].dependencyHealth = PARTIAL_DEPENDENCY ->
                                "Some non-critical dependencies are down"
                           [] OTHER -> "All dependencies are healthy"))
    /\ [][\A r \in Requests :
            overallHealth'[r] # overallHealth[r] =>
                \/ overallHealth[r] = Undefined /\ overallHealth'[r] = HEALTHY
                \/ overallHealth[r] = HEALTHY /\ overallHealth'[r] = UNHEALTHY]_vars

EscalatedEarlyDependencyFirst ==
    \E r \in Requests :
        /\ settled[r] = <<"dependency", "system">>
        /\ comprehensive[r].systemHealth = UNHEALTHY
        /\ comprehensive[r].dependencyHealth = DEPENDENCIES_HEALTHY
        /\ comprehensive[r].status = UNHEALTHY
        /\ comprehensive[r].reasoning[1] = "System metrics indicate unhealthy state"

\* C11: the dependency-only endpoint answers 200 with status "healthy" if
\* and only if the verdict is DEPENDENCIES_HEALTHY, and 500 with status
\* "unhealthy" for DEPENDENCY_FAILURE and for PARTIAL_DEPENDENCY, whereas
\* the comprehensive endpoint answers 200/HEALTHY for a partial dependency
\* failure beside a HEALTHY system verdict.
PartialDependencyDisagreement ==
    \A r \in Requests :
        /\ (/\ endpoint[r] = "dependencies"
            /\ call[r]["dependency"].state = "fulfilled"
            /\ pc[r] = "done") =>
              LET v == call[r]["dependency"].value
              IN  /\ response[r].dependencyHealth = v
                  /\ response[r].httpStatus \in {200, 500}
                  /\ (response[r].httpStatus = 200 /\ response[r].status = "healthy")
                        <=> v = DEPENDENCIES_HEALTHY
                  /\ v \in {DEPENDENCY_FAILURE, PARTIAL_DEPENDENCY} =>
                        response[r].httpStatus = 500 /\ response[r].status = "unhealthy"
        /\ (/\ Comprehensive(r)
            /\ pc[r] = "done"
            /\ call[r]["system"].value = HEALTHY
            /\ call[r]["dependency"].value = PARTIAL_DEPENDENCY) =>
              /\ response[r].httpStatus = 200
              /\ response[r].details.status = HEALTHY

SamePartialVerdictTwoAnswers ==
    \E r, q \in Requests :
        /\ endpoint[r] = "dependencies"
        /\ call[r]["dependency"].value = PARTIAL_DEPENDENCY
        /\ response[r].httpStatus = 500
        /\ response[r].status = "unhealthy"
        /\ Comprehensive(q)
        /\ call[q]["system"].value = HEALTHY
        /\ call[q]["dependency"].value = PARTIAL_DEPENDENCY
        /\ response[q].httpStatus = 200

====
